---- MODULE Spec2Model ----
(***************************************************************************)
(* The party relay of firekill222/signaling-server.                        *)
(*                                                                         *)
(* Three server variants are modelled, selected by `variant`:              *)
(*   "server" : src/server.js                                              *)
(*   "long"   : src/unnamed/part_000 lines 1-516 (Long.js tagged union)    *)
(*   "four"   : src/unnamed/part_000 lines 518-1009 (four bare messages),  *)
(*              run by SpecFour                                            *)
(* All keep three insertion-ordered tables (sessions, parties, members)   *)
(* and process one event (connect, message, close) to completion at a      *)
(* time.                                                                   *)
(***************************************************************************)
EXTENDS Naturals, Integers, Sequences, FiniteSets, TLC

\* Number of Join messages that are processed in a run.
MaxJoins == 2

Variants == {"server", "long"}

\* The connections that are opened in a run, in this order.
Conns == {1, 2}

-----------------------------------------------------------------------------
(* 64-bit identifiers.  A Long is kept as four 16-bit limbs, most          *)
(* significant first, so that values beyond 2^53 can be written down.      *)

Limb == 2 ^ 16

Small(n) == <<0, 0, 0, n>>

\* 2^53 + 1, the first integer a binary64 number cannot hold.
BigId == <<32, 0, 0, 1>>

Zero64 == <<0, 0, 0, 0>>

\* One step of long division of a Long by ten.
DivMod10(v) ==
    LET t1 == v[1]
        t2 == (t1 % 10) * Limb + v[2]
        t3 == (t2 % 10) * Limb + v[3]
        t4 == (t3 % 10) * Limb + v[4]
    IN  [q |-> <<t1 \div 10, t2 \div 10, t3 \div 10, t4 \div 10>>, r |-> t4 % 10]

RECURSIVE Digits(_)
Digits(v) ==
    IF v = Zero64 THEN <<>>
    ELSE LET dm == DivMod10(v) IN Append(Digits(dm.q), dm.r)

\* Long.prototype.toString(): the decimal digits of the exact value.
LongToString(v) == IF v = Zero64 THEN <<0>> ELSE Digits(v)

\* v * 10 + d on limbs, wrapping at 64 bits.
MulAdd10(v, d) ==
    LET t4 == v[4] * 10 + d
        t3 == v[3] * 10 + (t4 \div Limb)
        t2 == v[2] * 10 + (t3 \div Limb)
        t1 == v[1] * 10 + (t2 \div Limb)
    IN  <<t1 % Limb, t2 % Limb, t3 % Limb, t4 % Limb>>

RECURSIVE ParseDigits(_)
ParseDigits(s) ==
    IF s = <<>> THEN Zero64
    ELSE MulAdd10(ParseDigits(SubSeq(s, 1, Len(s) - 1)), s[Len(s)])

\* Long.fromString(str): the exact value of a decimal string.
LongFromString(s) == ParseDigits(s)

\* v + 1 on limbs, wrapping at 64 bits.
Succ64(v) ==
    LET t4 == v[4] + 1
        t3 == v[3] + (t4 \div Limb)
        t2 == v[2] + (t3 \div Limb)
        t1 == v[1] + (t2 \div Limb)
    IN  <<t1 % Limb, t2 % Limb, t3 % Limb, t4 % Limb>>

\* The nearest binary64 number, as the int64 it encodes to.  Values from 2^53
\* up to 2^54 lie two apart: an odd value is a tie and goes to the neighbour
\* whose half is even.  (Identifiers of 2^54 and above are not modelled.)
Round53(v) ==
    IF v[1] < 32 \/ v[4] % 2 = 0 THEN v
    ELSE IF (v[4] \div 2) % 2 = 0 THEN <<v[1], v[2], v[3], v[4] - 1>>
    ELSE Succ64(v)

\* parseInt(str) followed by the int64 encoding of the resulting number.
ParseInt(s) == Round53(ParseDigits(s))

-----------------------------------------------------------------------------
(* The type string of a Data message, as a sequence of lexical tokens.     *)

PlainType == <<"StatusUpdate">>

\* The text {"type":"StatusUpdate"}
JsonType == <<"{", "\"type\"", ":", "\"StatusUpdate\"", "}">>

TypeStrings == {PlainType, JsonType}

StartsWith(s, tok) == Len(s) > 0 /\ s[1] = tok

Includes(s, tok) == \E i \in 1 .. Len(s) : s[i] = tok

\* The content of a JSON string literal.
Unquote(tok) ==
    CASE tok = "\"type\"" -> "type"
      [] tok = "\"StatusUpdate\"" -> "StatusUpdate"
      [] OTHER -> ""

IsStringLiteral(tok) == tok \in {"\"type\"", "\"StatusUpdate\""}

\* JSON.parse on a one-member object: the value of its "type" member.
JsonParse(s) ==
    IF /\ Len(s) = 5
       /\ s[1] = "{" /\ s[3] = ":" /\ s[5] = "}"
       /\ IsStringLiteral(s[2]) /\ IsStringLiteral(s[4])
    THEN [ok |-> TRUE,
          type |-> IF Unquote(s[2]) = "type" THEN Unquote(s[4]) ELSE ""]
    ELSE [ok |-> FALSE, type |-> ""]

\* server.js: a type that is JSON text with a "type" member is replaced by
\* that member before the message is handled.
ExtractType(dataType) ==
    IF StartsWith(dataType, "{") /\ Includes(dataType, "\"type\"")
    THEN LET typeObj == JsonParse(dataType)
         IN  IF typeObj.ok /\ typeObj.type # "" THEN <<typeObj.type>>
             ELSE dataType
    ELSE dataType

-----------------------------------------------------------------------------
(* The wire format of the four-message variant.  Its clients send a bare   *)
(* Join, Part, Data or UserSync; the server tries the decoders in that      *)
(* order on the bytes received.  A buffer is a sequence of bytes.           *)

\* A varint that is read from position pos: base-128 digits, least
\* significant first, the last one below 128.  Reading past the end fails.
RECURSIVE ReadVarint(_, _)
ReadVarint(buf, pos) ==
    IF pos > Len(buf) THEN [ok |-> FALSE, value |-> 0, pos |-> pos]
    ELSE IF buf[pos] < 128 THEN [ok |-> TRUE, value |-> buf[pos], pos |-> pos + 1]
    ELSE LET rest == ReadVarint(buf, pos + 1)
         IN  [ok |-> rest.ok,
              value |-> (buf[pos] - 128) + 128 * rest.value,
              pos |-> rest.pos]

\* reader.skip(length)
SkipBytes(buf, pos, length) ==
    [ok |-> pos + length <= Len(buf) + 1, pos |-> pos + length]

\* reader.skipType(wireType): a varint, 8 bytes, a length-delimited run, a
\* group up to its end tag, 4 bytes; any other wire type is an error.
RECURSIVE SkipType(_, _, _)
SkipType(buf, pos, wireType) ==
    CASE wireType = 0 ->
            LET v == ReadVarint(buf, pos) IN [ok |-> v.ok, pos |-> v.pos]
      [] wireType = 1 -> SkipBytes(buf, pos, 8)
      [] wireType = 2 ->
            LET n == ReadVarint(buf, pos)
            IN  IF n.ok THEN SkipBytes(buf, n.pos, n.value)
                ELSE [ok |-> FALSE, pos |-> n.pos]
      [] wireType = 3 ->
            LET t == ReadVarint(buf, pos)
            IN  IF ~t.ok THEN [ok |-> FALSE, pos |-> t.pos]
                ELSE IF t.value % 8 = 4 THEN [ok |-> TRUE, pos |-> t.pos]
                ELSE LET inner == SkipType(buf, t.pos, t.value % 8)
                     IN  IF inner.ok THEN SkipType(buf, inner.pos, 3) ELSE inner
      [] wireType = 5 -> SkipBytes(buf, pos, 4)
      [] OTHER -> [ok |-> FALSE, pos |-> pos]

\* reader.int64() as a Long; the identifiers on the wire here stay below 2^32.
ToLong(n) == <<0, 0, n \div Limb, n % Limb>>

\* reader.bytes() / reader.string(): a length and that many bytes.
ReadBytes(buf, pos) ==
    LET n == ReadVarint(buf, pos)
    IN  IF n.ok /\ n.pos + n.value <= Len(buf) + 1
        THEN [ok |-> TRUE, value |-> SubSeq(buf, n.pos, n.pos + n.value - 1),
              pos |-> n.pos + n.value]
        ELSE [ok |-> FALSE, value |-> <<>>, pos |-> n.pos]

\* A decoded message with every field at its proto3 default.
DefaultMessage ==
    [partyId |-> Zero64, memberId |-> Zero64, data |-> <<>>, type |-> <<>>]

\* Type.decode(bytes): the loop protobufjs generates.  A field is recognised
\* by its number alone and read as its declared type, whatever wire type the
\* tag carries; an unknown field is skipped by its wire type.
RECURSIVE DecodeFrom(_, _, _, _)
DecodeFrom(messageType, buf, pos, message) ==
    IF pos > Len(buf) THEN [ok |-> TRUE, message |-> message]
    ELSE
      LET tag == ReadVarint(buf, pos)
          field == tag.value \div 8
          failed == [ok |-> FALSE, message |-> message]
      IN  IF ~tag.ok THEN failed
          ELSE IF messageType = "Join" /\ field \in {1, 2}
          THEN LET v == ReadVarint(buf, tag.pos)
               IN  IF ~v.ok THEN failed
                   ELSE DecodeFrom(messageType, buf, v.pos,
                            IF field = 1
                            THEN [message EXCEPT !.partyId = ToLong(v.value)]
                            ELSE [message EXCEPT !.memberId = ToLong(v.value)])
          ELSE IF messageType = "Data" /\ field \in {1, 2}
          THEN LET v == ReadBytes(buf, tag.pos)
               IN  IF ~v.ok THEN failed
                   ELSE DecodeFrom(messageType, buf, v.pos,
                            IF field = 1
                            THEN [message EXCEPT !.data = v.value]
                            ELSE [message EXCEPT !.type = v.value])
          ELSE LET k == SkipType(buf, tag.pos, tag.value % 8)
               IN  IF ~k.ok THEN failed
                   ELSE DecodeFrom(messageType, buf, k.pos, message)

Decode(messageType, buf) == DecodeFrom(messageType, buf, 1, DefaultMessage)

\* The message handler's decoding: Join, then Part, then Data, then
\* UserSync; the first decoder that does not throw decides the type.
DecodeOrder == <<"Join", "Part", "Data", "UserSync">>

DecodeAny(buf) ==
    IF \E i \in 1 .. Len(DecodeOrder) : Decode(DecodeOrder[i], buf).ok
    THEN LET i == CHOOSE i \in 1 .. Len(DecodeOrder) :
                     /\ Decode(DecodeOrder[i], buf).ok
                     /\ \A j \in 1 .. i - 1 : ~Decode(DecodeOrder[j], buf).ok
         IN  [messageType |-> DecodeOrder[i],
              decoded |-> Decode(DecodeOrder[i], buf).message]
    ELSE [messageType |-> "none", decoded |-> DefaultMessage]

\* What a client's encoder writes: proto3 leaves out a field at its default.
Varint(n) == IF n < 128 THEN <<n>> ELSE <<128 + (n % 128), n \div 128>>

EncodeJoin(partyId, memberId) ==
    (IF partyId = 0 THEN <<>> ELSE <<8>> \o Varint(partyId))
    \o (IF memberId = 0 THEN <<>> ELSE <<16>> \o Varint(memberId))

EncodeData(data, type) ==
    (IF data = <<>> THEN <<>> ELSE <<10>> \o Varint(Len(data)) \o data)
    \o (IF type = <<>> THEN <<>> ELSE <<18>> \o Varint(Len(type)) \o type)

EncodeEmpty == <<>>

\* The messages the clients of the four-message variant send, as
\* [sent, bytes, partyId, memberId, data, type]: what was encoded and from
\* which fields.
Sent(kind, bytes, fields) ==
    [sent |-> kind, bytes |-> bytes, partyId |-> fields.partyId,
     memberId |-> fields.memberId, data |-> fields.data, type |-> fields.type]

SentJoin(partyId, memberId) ==
    Sent("Join", EncodeJoin(partyId, memberId),
         [DefaultMessage EXCEPT !.partyId = ToLong(partyId),
                                !.memberId = ToLong(memberId)])

SentData(data, type) ==
    Sent("Data", EncodeData(data, type),
         [DefaultMessage EXCEPT !.data = data, !.type = type])

\* The type string "X" in UTF-8.
TypeX == <<88>>

\* Join{7,42}, Join{7,99}, Part, UserSync, Data{<07>, "X"}, a Data whose
\* payload bytes <10 63> read as a field of Join, a buffer no client encoder
\* writes (field 1 with wire type 7) and a truncated varint.
Buffers ==
    { SentJoin(7, 42), SentJoin(7, 99),
      Sent("Part", EncodeEmpty, DefaultMessage),
      Sent("UserSync", EncodeEmpty, DefaultMessage),
      SentData(<<7>>, TypeX),
      SentData(<<16, 99>>, <<>>),
      Sent("crafted", <<15, 1, 0>>, DefaultMessage),
      Sent("garbage", <<255>>, DefaultMessage) }

\* The decoding of every buffer in use, computed once.
Decoded == [b \in {x.bytes : x \in Buffers} |-> DecodeAny(b)]

\* The identifiers the Join decoder produces from them: 0 from an empty
\* buffer, 2 from the length byte of a Data payload.
WireIds == {Zero64, Small(2), Small(7), Small(42), Small(99)}

-----------------------------------------------------------------------------
(* Inputs.                                                                 *)

PartyIds == {Small(7), BigId}

MemberIds == {Small(42), Small(99), BigId}

\* The (type, data) pairs a client sends: a plain type and a type that is
\* itself JSON text, with different payload bytes.
DataInputs == {<<PlainType, <<123, 125>>>>, <<JsonType, <<7>>>>}

\* The conversions on the identifiers in use, computed once.
KeyOf == [v \in PartyIds \cup MemberIds \cup WireIds |-> LongToString(v)]

Keys == {KeyOf[v] : v \in DOMAIN KeyOf}

LongOf == [s \in Keys |-> LongFromString(s)]

NumberOf == [s \in Keys |-> ParseInt(s)]

\* A connection opened without a sessionId parameter.
NoSid == 0

\* uuid.v4(): an identifier no client supplied.
Uuid(c) == Cardinality(Conns) + c

-----------------------------------------------------------------------------
(* State.                                                                  *)

VARIABLES
    variant,    \* which server file runs
    Party,      \* TRUE once protobuf.load has resolved
    conns,      \* connection -> [state, sid]: the WebSocket and its sessionId
    sessions,   \* Map sessionId -> WebSocket
    parties,    \* Map partyId -> Set of memberIds, in insertion order
    members,    \* Map memberId -> {sessionId, partyId}, in insertion order
    ev,         \* the event processed last
    out,        \* the ws.send calls of the event processed last, in order
    err,        \* what the event processed last raised
    nJoins,     \* how many Join messages have been processed
    observed,   \* TRUE when the clients' side of the run is recorded
    joined,     \* connection -> the Joins it sent since it opened or parted
    stream,     \* connection -> what was written to its socket, in order
    nSent       \* how many events have written to a socket

vars ==
    <<variant, Party, conns, sessions, parties, members, ev, out, err, nJoins,
      observed, joined, stream, nSent>>

registry == <<sessions, parties, members>>

\* kind is the handler that ran; sent and bytes are what the client encoded
\* (four-message variant, whose handler is chosen by trial decoding).
NoEvent ==
    [kind |-> "none", conn |-> 0, sidParam |-> 0, partyId |-> Zero64,
     memberId |-> Zero64, type |-> <<>>, data |-> <<>>,
     sent |-> "none", bytes |-> <<>>]

Event(kind, c) == [NoEvent EXCEPT !.kind = kind, !.conn = c]

\* S2C messages as a client decodes them: an absent field reads as its
\* proto3 default.
UserJoinMsg(partyId, memberId) ==
    [kind |-> "join", partyId |-> partyId, memberId |-> memberId,
     data |-> <<>>, type |-> <<>>]

UserPartMsg(memberId) ==
    [kind |-> "part", partyId |-> Zero64, memberId |-> memberId,
     data |-> <<>>, type |-> <<>>]

PartyDataMsg(partyId, memberId, data, type) ==
    [kind |-> "data", partyId |-> partyId, memberId |-> memberId,
     data |-> data, type |-> type]

\* The Data message the four-message variant relays: the sender's own
\* message type, which has no partyId and no memberId field.
DataMsg(data, type) ==
    [kind |-> "Data", partyId |-> Zero64, memberId |-> Zero64,
     data |-> data, type |-> type]

\* The text {"message":"Welcome to the server"} stands for its bytes.
WelcomeBytes == <<"{\"message\":\"Welcome to the server\"}">>

WelcomeMsg == PartyDataMsg(Zero64, Zero64, WelcomeBytes, <<"ServerWelcome">>)

-----------------------------------------------------------------------------
(* The tables.                                                             *)

EmptyMap == [k \in {} |-> 0]

MapDelete(map, k) == [x \in DOMAIN map \ {k} |-> map[x]]

MapSet(map, k, v) == [x \in DOMAIN map \cup {k} |-> IF x = k THEN v ELSE map[x]]

\* members.has / members.get / members.set / members.delete
HasMember(mem, memberId) == \E i \in 1 .. Len(mem) : mem[i].id = memberId

GetMember(mem, memberId) ==
    mem[CHOOSE i \in 1 .. Len(mem) : mem[i].id = memberId]

SetMember(mem, record) ==
    IF HasMember(mem, record.id)
    THEN [i \in 1 .. Len(mem) |-> IF mem[i].id = record.id THEN record ELSE mem[i]]
    ELSE Append(mem, record)

DeleteMember(mem, memberId) == SelectSeq(mem, LAMBDA r : r.id # memberId)

\* An add that appends without looking for the element (an array, not a Set).
SetAddAgain(set, x) == Append(set, x)

\* Set.prototype.add / delete on an insertion-ordered Set
SetAdd(set, x) ==
    IF \E i \in 1 .. Len(set) : set[i] = x THEN set ELSE Append(set, x)

SetDelete(set, x) == SelectSeq(set, LAMBDA y : y # x)

\* A scan that falls back on the first record when the session has none.
FindMemberOrFirst(mem, sessionId) ==
    IF \E i \in 1 .. Len(mem) : mem[i].sessionId = sessionId
    THEN CHOOSE i \in 1 .. Len(mem) :
            /\ mem[i].sessionId = sessionId
            /\ \A j \in 1 .. i - 1 : mem[j].sessionId # sessionId
    ELSE IF mem = <<>> THEN 0 ELSE 1

\* for (const [memberId, info] of members.entries())
\*     if (info.sessionId === sessionId) { ...; break; }
\* The position of the first record of the session, 0 when there is none.
FindMemberBySession(mem, sessionId) ==
    IF \E i \in 1 .. Len(mem) : mem[i].sessionId = sessionId
    THEN CHOOSE i \in 1 .. Len(mem) :
            /\ mem[i].sessionId = sessionId
            /\ \A j \in 1 .. i - 1 : mem[j].sessionId # sessionId
    ELSE 0

-----------------------------------------------------------------------------
(* Sending.                                                                *)

\* ws && ws.readyState === WebSocket.OPEN, for ws = sessions.get(sessionId)
Writable(sess, cn, sessionId) ==
    sessionId \in DOMAIN sess /\ cn[sess[sessionId]].state = "open"

Send(c, memberId, via, message) ==
    [to |-> c, member |-> memberId, via |-> via, msg |-> message]

\* A broadcast that does not look at readyState.
BroadcastIgnoresReadyState(sess, pts, mem, cn, partyIdStr, message) ==
    IF partyIdStr \notin DOMAIN pts THEN <<>>
    ELSE
      LET party == pts[partyIdStr]
          deliver(memberId) ==
              IF /\ HasMember(mem, memberId)
                 /\ GetMember(mem, memberId).sessionId \in DOMAIN sess
              THEN <<Send(sess[GetMember(mem, memberId).sessionId], memberId,
                          "broadcast", message)>>
              ELSE <<>>
          upto[i \in 0 .. Len(party)] ==
              IF i = 0 THEN <<>> ELSE upto[i - 1] \o deliver(party[i])
      IN  upto[Len(party)]

\* A broadcast whose loop ends at the first member it cannot write to.
BroadcastStopsAtUnwritable(sess, pts, mem, cn, partyIdStr, message) ==
    IF partyIdStr \notin DOMAIN pts THEN <<>>
    ELSE
      LET party == pts[partyIdStr]
          ok(memberId) ==
              /\ HasMember(mem, memberId)
              /\ Writable(sess, cn, GetMember(mem, memberId).sessionId)
          upto[i \in 0 .. Len(party)] ==
              IF i = 0 THEN <<>>
              ELSE IF \E j \in 1 .. i : ~ok(party[j]) THEN upto[i - 1]
              ELSE Append(upto[i - 1],
                          Send(sess[GetMember(mem, party[i]).sessionId],
                               party[i], "broadcast", message))
      IN  upto[Len(party)]

\* The sends broadcastToParty makes, in the order of the party's Set.
BroadcastToParty(sess, pts, mem, cn, partyIdStr, message) ==
    IF partyIdStr \notin DOMAIN pts THEN <<>>
    ELSE
      LET party == pts[partyIdStr]
          deliver(memberId) ==
              IF /\ HasMember(mem, memberId)
                 /\ Writable(sess, cn, GetMember(mem, memberId).sessionId)
              THEN <<Send(sess[GetMember(mem, memberId).sessionId], memberId,
                          "broadcast", message)>>
              ELSE <<>>
          upto[i \in 0 .. Len(party)] ==
              IF i = 0 THEN <<>> ELSE upto[i - 1] \o deliver(party[i])
      IN  upto[Len(party)]

\* The send sendMessageToMember makes, if any.
SendMessageToMember(sess, mem, cn, memberId, message) ==
    IF ~HasMember(mem, memberId) THEN <<>>
    ELSE IF ~Writable(sess, cn, GetMember(mem, memberId).sessionId) THEN <<>>
    ELSE <<Send(sess[GetMember(mem, memberId).sessionId], memberId,
                "unicast", message)>>

-----------------------------------------------------------------------------
(* Registry updates of the handlers.                                       *)

\* members.set(memberId, {sessionId, partyId[, originalMemberId]})
JoinMembers(v, mem, sessionId, partyId, memberId) ==
    SetMember(mem,
        [id |-> KeyOf[memberId],
         sessionId |-> sessionId,
         partyId |-> KeyOf[partyId],
         originalMemberId |-> IF v # "server" THEN memberId ELSE <<>>])

\* if (!parties.has(partyId)) parties.set(partyId, new Set());
\* parties.get(partyId).add(memberId);
JoinParties(pts, partyId, memberId) ==
    LET key == KeyOf[partyId]
        party == IF key \in DOMAIN pts THEN pts[key] ELSE <<>>
    IN  MapSet(pts, key, SetAdd(party, KeyOf[memberId]))

\* A removal that leaves the emptied party in the table.
RemoveFromPartiesKeepEmpty(pts, memberId, partyId) ==
    IF partyId \notin DOMAIN pts THEN pts
    ELSE MapSet(pts, partyId, SetDelete(pts[partyId], memberId))

\* A removal that drops the whole party with the member that leaves.
RemoveFromPartiesDropsParty(pts, memberId, partyId) ==
    IF partyId \notin DOMAIN pts THEN pts ELSE MapDelete(pts, partyId)

\* removeMemberFromParty, the party table: the member leaves the Set and an
\* empty Set is removed from the Map.
RemoveFromParties(pts, memberId, partyId) ==
    IF partyId \notin DOMAIN pts THEN pts
    ELSE LET party == SetDelete(pts[partyId], memberId)
         IN  IF Len(party) = 0 THEN MapDelete(pts, partyId)
             ELSE MapSet(pts, partyId, party)

\* The memberId a UserPart carries: the stored Long or Long.fromString in the
\* Long.js variant, the key string (encoded through Long.fromString) in
\* server.js.
PartMemberId(v, mem, memberId) ==
    IF v # "server" /\ HasMember(mem, memberId)
    THEN GetMember(mem, memberId).originalMemberId
    ELSE LongOf[memberId]

\* A removal that broadcasts the UserPart before it updates the tables, so
\* that the leaver is among the recipients.
RemoveMemberAfterBroadcast(v, sess, pts, mem, cn, memberId, partyId) ==
    [parties |-> RemoveFromParties(pts, memberId, partyId),
     members |-> DeleteMember(mem, memberId),
     out |-> BroadcastToParty(sess, pts, mem, cn, partyId,
                              UserPartMsg(PartMemberId(v, mem, memberId)))]

\* removeMemberFromParty: the tables afterwards and the UserPart broadcast.
RemoveMemberFromParty(v, sess, pts, mem, cn, memberId, partyId) ==
    LET pts1 == RemoveFromParties(pts, memberId, partyId)
        mem1 == DeleteMember(mem, memberId)
    IN  [parties |-> pts1,
         members |-> mem1,
         out |-> BroadcastToParty(sess, pts1, mem1, cn, partyId,
                                  UserPartMsg(PartMemberId(v, mem, memberId)))]

\* The other members of the party a newcomer is told about, in Set order.
OtherMembers(pts, partyId, memberId) ==
    SelectSeq(pts[partyId], LAMBDA existingMemberId : existingMemberId # memberId)

\* The catch-up loop of handleJoin in the Long.js variant: one UserJoin per
\* other member that has a member record, sent to the new member.
CatchUp(sess, pts, mem, cn, partyId, memberId) ==
    LET others == OtherMembers(pts, KeyOf[partyId], KeyOf[memberId])
        tell(existingMemberId) ==
            IF ~HasMember(mem, existingMemberId) THEN <<>>
            ELSE SendMessageToMember(sess, mem, cn, KeyOf[memberId],
                     UserJoinMsg(partyId,
                                 GetMember(mem, existingMemberId).originalMemberId))
        upto[i \in 0 .. Len(others)] ==
            IF i = 0 THEN <<>> ELSE upto[i - 1] \o tell(others[i])
    IN  upto[Len(others)]

\* server.js calls sendMessageToMember, which that file does not define: the
\* first other member makes the loop raise a ReferenceError before any send.
CatchUpRaises(pts, partyId, memberId) ==
    Len(OtherMembers(pts, KeyOf[partyId], KeyOf[memberId])) > 0

\* A handleJoin that sends the catch-up messages ahead of the broadcast.
JoinSendsCatchUpFirst(v, sess, pts, mem, cn, partyId, memberId) ==
    LET announce == BroadcastToParty(sess, pts, mem, cn, KeyOf[partyId],
                                     UserJoinMsg(partyId, memberId))
    IN  IF v = "long"
        THEN CatchUp(sess, pts, mem, cn, partyId, memberId) \o announce
        ELSE announce

\* The ws.send calls of handleJoin on the tables after the add: the UserJoin
\* broadcast first, then (Long.js variant) the catch-up messages.  In
\* server.js the ReferenceError ends the handler after the broadcast.
JoinSends(v, sess, pts, mem, cn, partyId, memberId) ==
    LET announce == BroadcastToParty(sess, pts, mem, cn, KeyOf[partyId],
                                     UserJoinMsg(partyId, memberId))
    IN  IF v = "long"
        THEN announce \o CatchUp(sess, pts, mem, cn, partyId, memberId)
        ELSE announce

\* The PartyData handleData builds for the sender record `info`.
BuildPartyData(v, info, type, data) ==
    IF v = "long"
    THEN PartyDataMsg(LongOf[info.partyId], info.originalMemberId, data, type)
    ELSE PartyDataMsg(NumberOf[info.partyId], NumberOf[info.id], data, type)

\* The type handleData is given by the message handler.
HandledType(v, type) == IF v = "server" THEN ExtractType(type) ELSE type

\* A recorded run ends with the MaxSent-th event that writes to a socket.
MaxSent == 2

\* The run is not recorded: the clients' side stays as it is at start.
Unobserved ==
    /\ observed = FALSE
    /\ joined = [c \in Conns |-> {}]
    /\ stream = [c \in Conns |-> <<>>]
    /\ nSent = 0

\* A write that jumps the queue of the socket.
WritePrepends(sock, frames) == frames \o sock

\* ws.send: the frames of an event go out on the socket after everything
\* written to it before, in the order of the calls.
Write(sock, frames) == sock \o frames

\* The Joins a connection has sent and not taken back: a Join that reaches
\* handleJoin adds its pair, a Part or the close of the connection clears
\* them.
Joined(c) ==
    IF ev'.conn # c THEN joined[c]
    ELSE IF ev'.kind = "join" /\ Party
    THEN joined[c] \cup {[partyId |-> KeyOf[ev'.partyId],
                          memberId |-> KeyOf[ev'.memberId]]}
    ELSE IF ev'.kind \in {"part", "close"} THEN {}
    ELSE joined[c]

\* What the event wrote to the socket of c, one frame per ws.send: the number
\* of the event among those that wrote, the kind of message, and whether it
\* is the UserJoin of a Join sent on c itself.
Frames(c) ==
    LET idx == {i \in 1 .. Len(out') : out'[i].to = c}
        Frame(i) ==
            [n |-> nSent + 1,
             kind |-> out'[i].msg.kind,
             own |-> /\ out'[i].msg.kind = "join"
                     /\ [partyId |-> KeyOf[out'[i].msg.partyId],
                         memberId |-> KeyOf[out'[i].msg.memberId]] \in Joined(c)]
        RECURSIVE Pick(_)
        Pick(i) == IF i > Len(out') THEN <<>>
                   ELSE IF i \in idx THEN <<Frame(i)>> \o Pick(i + 1)
                   ELSE Pick(i + 1)
    IN  Pick(1)

\* The clients' side of an event, recorded when the run is observed.
Observe ==
    /\ observed' = observed
    /\ IF ~observed
       THEN UNCHANGED <<joined, stream, nSent>>
       ELSE /\ nSent < MaxSent
            /\ nSent' = IF out' = <<>> THEN nSent ELSE nSent + 1
            /\ joined' = [c \in Conns |-> Joined(c)]
            /\ stream' = [c \in Conns |->
                            IF ev'.kind = "close" /\ ev'.conn = c THEN <<>>
                            ELSE Write(stream[c], Frames(c))]


-----------------------------------------------------------------------------
(* Events.                                                                 *)

Init ==
    /\ variant \in Variants
    /\ Party = FALSE
    /\ conns = [c \in Conns |-> [state |-> "idle", sid |-> NoSid]]
    /\ sessions = EmptyMap
    /\ parties = EmptyMap
    /\ members = <<>>
    /\ ev = NoEvent
    /\ out = <<>>
    /\ err = "none"
    /\ nJoins = 0
    /\ Unobserved

\* protobuf.load(...).then(...): the message types become available.
LoadProto ==
    /\ ~Party
    /\ Party' = TRUE
    /\ ev' = Event("load", 0)
    /\ out' = <<>>
    /\ err' = "none"
    /\ UNCHANGED <<nJoins, variant, conns, registry>>
    /\ Observe

\* wss.on('connection').  Session identifiers are opaque to the server, so a
\* client-supplied one is named by the first connection that used it;
\* connections are numbered in the order they are opened.
Connect(c, sidParam) ==
    /\ conns[c].state = "idle"
    /\ \A d \in 1 .. c - 1 : conns[d].state # "idle"
    /\ sidParam \in {NoSid} \cup (1 .. c)
    /\ ev' = [Event("connect", c) EXCEPT !.sidParam = sidParam]
    /\ err' = "none"
    /\ IF variant = "server" /\ sidParam = NoSid
       THEN \* ws.close(1000, 'No session ID provided'); return;
            /\ conns' = [conns EXCEPT ![c] = [state |-> "closed", sid |-> NoSid]]
            /\ out' = <<>>
            /\ UNCHANGED sessions
       ELSE LET sessionId == IF sidParam = NoSid THEN Uuid(c) ELSE sidParam
            IN  /\ conns' = [conns EXCEPT ![c] = [state |-> "open", sid |-> sessionId]]
                /\ sessions' = MapSet(sessions, sessionId, c)
                /\ out' = IF variant = "server" /\ Party
                          THEN <<Send(c, <<>>, "welcome", WelcomeMsg)>>
                          ELSE <<>>
    /\ UNCHANGED <<nJoins, variant, Party, parties, members>>
    /\ Observe

\* A handler that runs handleJoin whether or not the schema is loaded.
JoinIgnoresLoad(c, partyId, memberId) ==
    /\ conns[c].state = "open"
    /\ nJoins < MaxJoins
    /\ nJoins' = nJoins + 1
    /\ ev' = [Event("join", c) EXCEPT
                 !.partyId = partyId, !.memberId = memberId]
    /\ LET mem1 == JoinMembers(variant, members, conns[c].sid, partyId, memberId)
           pts1 == JoinParties(parties, partyId, memberId)
       IN  /\ members' = mem1
           /\ parties' = pts1
           /\ out' = JoinSends(variant, sessions, pts1, mem1, conns,
                               partyId, memberId)
           /\ err' = IF variant = "server" /\ CatchUpRaises(pts1, partyId, memberId)
                     THEN "ReferenceError" ELSE "none"
    /\ UNCHANGED <<variant, Party, conns, sessions>>
    /\ Observe

\* ws.on('message') with a C2S whose msg is join: handleJoin.
Join(c, partyId, memberId) ==
    /\ conns[c].state = "open"
    /\ nJoins < MaxJoins
    /\ nJoins' = nJoins + 1
    /\ ev' = [Event("join", c) EXCEPT
                 !.partyId = partyId, !.memberId = memberId]
    /\ IF ~Party
       THEN /\ out' = <<>>
            /\ err' = "none"
            /\ UNCHANGED <<parties, members>>
       ELSE LET mem1 == JoinMembers(variant, members, conns[c].sid, partyId, memberId)
                pts1 == JoinParties(parties, partyId, memberId)
            IN  /\ members' = mem1
                /\ parties' = pts1
                /\ out' = JoinSends(variant, sessions, pts1, mem1, conns,
                                    partyId, memberId)
                /\ err' = IF variant = "server" /\ CatchUpRaises(pts1, partyId, memberId)
                          THEN "ReferenceError" ELSE "none"
    /\ UNCHANGED <<variant, Party, conns, sessions>>
    /\ Observe

\* ws.on('message') with a C2S whose msg is part: handlePart.
Part(c) ==
    /\ conns[c].state = "open"
    /\ ev' = Event("part", c)
    /\ err' = "none"
    /\ LET i == FindMemberBySession(members, conns[c].sid)
       IN  IF ~Party \/ i = 0
           THEN /\ out' = <<>>
                /\ UNCHANGED <<parties, members>>
           ELSE LET r == RemoveMemberFromParty(variant, sessions, parties, members,
                             conns, members[i].id, members[i].partyId)
                IN  /\ parties' = r.parties
                    /\ members' = r.members
                    /\ out' = r.out
    /\ UNCHANGED <<nJoins, variant, Party, conns, sessions>>
    /\ Observe

\* A handler that drops the records of the party members it cannot write to.
DataPrunesUnwritable(c, type, data) ==
    /\ conns[c].state = "open"
    /\ ev' = [Event("data", c) EXCEPT !.type = type, !.data = data]
    /\ err' = "none"
    /\ LET i == FindMemberBySession(members, conns[c].sid)
           Keep(r) == \/ i = 0
                      \/ r.partyId # members[i].partyId
                      \/ Writable(sessions, conns, r.sessionId)
       IN  /\ out' = IF ~Party \/ i = 0 THEN <<>>
                     ELSE BroadcastToParty(sessions, parties, members, conns,
                              members[i].partyId,
                              BuildPartyData(variant, members[i],
                                             HandledType(variant, type), data))
           /\ members' = IF Party THEN SelectSeq(members, Keep) ELSE members
    /\ UNCHANGED <<nJoins, variant, Party, conns, sessions, parties>>
    /\ Observe

\* A handler that treats Data from an unjoined session as a reason to close
\* the connection.
DataClosesUnknownSender(c, type, data) ==
    /\ conns[c].state = "open"
    /\ ev' = [Event("data", c) EXCEPT !.type = type, !.data = data]
    /\ err' = "none"
    /\ LET i == FindMemberBySession(members, conns[c].sid)
       IN  /\ out' = IF ~Party \/ i = 0 THEN <<>>
                     ELSE BroadcastToParty(sessions, parties, members, conns,
                              members[i].partyId,
                              BuildPartyData(variant, members[i],
                                             HandledType(variant, type), data))
           /\ conns' = IF Party /\ i = 0
                       THEN [conns EXCEPT ![c].state = "closing"]
                       ELSE conns
    /\ UNCHANGED <<nJoins, variant, Party, registry>>
    /\ Observe

\* ws.on('message') with a C2S whose msg is data: handleData.
Data(c, type, data) ==
    /\ conns[c].state = "open"
    /\ ev' = [Event("data", c) EXCEPT !.type = type, !.data = data]
    /\ err' = "none"
    /\ LET i == FindMemberBySession(members, conns[c].sid)
       IN  out' = IF ~Party \/ i = 0 THEN <<>>
                  ELSE BroadcastToParty(sessions, parties, members, conns,
                           members[i].partyId,
                           BuildPartyData(variant, members[i],
                                          HandledType(variant, type), data))
    /\ UNCHANGED <<nJoins, variant, Party, conns, registry>>
    /\ Observe

\* A handler that closes the connection on bytes it cannot decode.
MalformedClosesConnection(c, what) ==
    /\ conns[c].state = "open"
    /\ ev' = Event(what, c)
    /\ out' = <<>>
    /\ err' = IF Party /\ what = "garbage" THEN "DecodeError" ELSE "none"
    /\ conns' = IF Party /\ what = "garbage"
                THEN [conns EXCEPT ![c].state = "closing"]
                ELSE conns
    /\ UNCHANGED <<nJoins, variant, Party, registry>>
    /\ Observe

\* A handler that treats a C2S with no variant set as a Part.
MalformedEmptyIsPart(c, what) ==
    /\ conns[c].state = "open"
    /\ ev' = Event(what, c)
    /\ err' = IF Party /\ what = "garbage" THEN "DecodeError" ELSE "none"
    /\ LET i == FindMemberBySession(members, conns[c].sid)
       IN  IF ~Party \/ what # "empty" \/ i = 0
           THEN /\ out' = <<>>
                /\ UNCHANGED <<parties, members>>
           ELSE LET r == RemoveMemberFromParty(variant, sessions, parties, members,
                             conns, members[i].id, members[i].partyId)
                IN  /\ parties' = r.parties
                    /\ members' = r.members
                    /\ out' = r.out
    /\ UNCHANGED <<nJoins, variant, Party, conns, sessions>>
    /\ Observe

\* ws.on('message') with bytes that C2S.decode rejects ("garbage": the
\* exception is caught in the handler) or that select no variant ("empty").
Malformed(c, what) ==
    /\ conns[c].state = "open"
    /\ ev' = Event(what, c)
    /\ out' = <<>>
    /\ err' = IF Party /\ what = "garbage" THEN "DecodeError" ELSE "none"
    /\ UNCHANGED <<nJoins, variant, Party, conns, registry>>
    /\ Observe

\* The socket leaves the OPEN state; its 'close' event has not run yet.
ReadyStateClosing(c) ==
    /\ conns[c].state = "open"
    /\ conns' = [conns EXCEPT ![c].state = "closing"]
    /\ ev' = Event("closing", c)
    /\ out' = <<>>
    /\ err' = "none"
    /\ UNCHANGED <<nJoins, variant, Party, registry>>
    /\ Observe

\* ws.on('close'): handleDisconnect.  The socket is CLOSED when it runs.
Close(c) ==
    /\ conns[c].state \in {"open", "closing"}
    /\ ev' = Event("close", c)
    /\ err' = "none"
    /\ conns' = [conns EXCEPT ![c] = [state |-> "closed", sid |-> NoSid]]
    /\ LET i == FindMemberBySession(members, conns[c].sid)
       IN  IF i = 0
           THEN /\ out' = <<>>
                /\ UNCHANGED <<parties, members>>
           ELSE LET r == RemoveMemberFromParty(variant, sessions, parties, members,
                             conns', members[i].id, members[i].partyId)
                IN  /\ parties' = r.parties
                    /\ members' = r.members
                    /\ out' = r.out
    /\ sessions' = MapDelete(sessions, conns[c].sid)
    /\ UNCHANGED <<nJoins, variant, Party>>
    /\ Observe

Next ==
    \/ LoadProto
    \/ \E c \in Conns, sidParam \in {NoSid} \cup Conns : Connect(c, sidParam)
    \/ \E c \in Conns, partyId \in PartyIds, memberId \in MemberIds :
          Join(c, partyId, memberId)
    \/ \E c \in Conns : Part(c)
    \/ \E c \in Conns, d \in DataInputs : Data(c, d[1], d[2])
    \/ \E c \in Conns, what \in {"garbage", "empty"} : Malformed(c, what)
    \/ \E c \in Conns : ReadyStateClosing(c)
    \/ \E c \in Conns : Close(c)

Spec == Init /\ [][Next]_vars

\* The server after start-up, with the first member in: the state reached by
\* the schema load, a connection with sessionId 1 and its Join{7, 42}.
\* nJoins counts the Joins processed from here on.
InitJoined ==
    /\ variant \in Variants
    /\ Party = TRUE
    /\ conns = [c \in Conns |-> IF c = 1 THEN [state |-> "open", sid |-> 1]
                                ELSE [state |-> "idle", sid |-> NoSid]]
    /\ sessions = MapSet(EmptyMap, 1, 1)
    /\ members = JoinMembers(variant, <<>>, 1, Small(7), Small(42))
    /\ parties = JoinParties(EmptyMap, Small(7), Small(42))
    /\ ev = [Event("join", 1) EXCEPT
                !.partyId = Small(7), !.memberId = Small(42)]
    /\ out = JoinSends(variant, sessions, parties, members, conns,
                       Small(7), Small(42))
    /\ err = "none"
    /\ nJoins = 0
    /\ Unobserved

NextJoined ==
    \/ \E c \in Conns, sidParam \in {NoSid} \cup Conns : Connect(c, sidParam)
    \/ \E c \in Conns, partyId \in PartyIds, memberId \in MemberIds :
          Join(c, partyId, memberId)
    \/ \E c \in Conns : Part(c)
    \/ \E c \in Conns, d \in DataInputs : Data(c, d[1], d[2])
    \/ \E c \in Conns, what \in {"garbage", "empty"} : Malformed(c, what)
    \/ \E c \in Conns : ReadyStateClosing(c)
    \/ \E c \in Conns : Close(c)

SpecJoined == InitJoined /\ [][NextJoined]_vars

\* A run of the Long.js variant with the clients' side recorded.
InitObserved ==
    /\ variant = "long"
    /\ Party = FALSE
    /\ conns = [c \in Conns |-> [state |-> "idle", sid |-> NoSid]]
    /\ sessions = EmptyMap
    /\ parties = EmptyMap
    /\ members = <<>>
    /\ ev = NoEvent
    /\ out = <<>>
    /\ err = "none"
    /\ nJoins = 0
    /\ observed = TRUE
    /\ joined = [c \in Conns |-> {}]
    /\ stream = [c \in Conns |-> <<>>]
    /\ nSent = 0

SpecObserved == InitObserved /\ [][Next]_vars

-----------------------------------------------------------------------------
(* The codec of the tagged-union variants: the decoders and encoders that   *)
(* protobufjs builds from party.proto.                                      *)

\* party.proto: the fields of each message type, by number.
Schema ==
    [C2S |-> (1 :> "Join" @@ 2 :> "Part" @@ 3 :> "Data"),
     S2C |-> (1 :> "UserJoin" @@ 2 :> "UserPart" @@ 3 :> "PartyData"),
     Join |-> (1 :> "int64" @@ 2 :> "int64"),
     UserJoin |-> (1 :> "int64" @@ 2 :> "int64"),
     Part |-> << >>,
     UserPart |-> (1 :> "int64" @@ 2 :> "int64"),
     Data |-> (1 :> "bytes" @@ 2 :> "string"),
     PartyData |-> (1 :> "int64" @@ 2 :> "int64" @@ 3 :> "bytes"
                    @@ 4 :> "string")]

\* A decoded message is the list of the properties set on the object, in the
\* order they were first set, as [f, v]: field number and value.
HasField(obj, f) == \E i \in 1 .. Len(obj) : obj[i].f = f

FieldValue(obj, f) == obj[CHOOSE i \in 1 .. Len(obj) : obj[i].f = f].v

\* message.field = value
PutField(obj, f, v) ==
    IF HasField(obj, f)
    THEN [i \in 1 .. Len(obj) |-> IF obj[i].f = f THEN [f |-> f, v |-> v]
                                  ELSE obj[i]]
    ELSE Append(obj, [f |-> f, v |-> v])

\* Type.decode(reader, length): the generated loop, up to position end.  A
\* field is recognised by its number alone and read as its declared type,
\* whatever wire type the tag carries; a nested message is decoded over the
\* length that precedes it; an unknown field is skipped by its wire type.
\* Reading past the end of the buffer throws.
RECURSIVE DecodeMessage(_, _, _, _, _)
DecodeMessage(messageType, buf, pos, end, obj) ==
    IF pos >= end THEN [ok |-> TRUE, obj |-> obj, pos |-> pos]
    ELSE
      LET tag == ReadVarint(buf, pos)
          field == tag.value \div 8
          failed == [ok |-> FALSE, obj |-> obj, pos |-> pos]
      IN  IF ~tag.ok THEN failed
          ELSE IF field \notin DOMAIN Schema[messageType]
          THEN LET k == SkipType(buf, tag.pos, tag.value % 8)
               IN  IF ~k.ok THEN failed
                   ELSE DecodeMessage(messageType, buf, k.pos, end, obj)
          ELSE IF Schema[messageType][field] = "int64"
          THEN LET v == ReadVarint(buf, tag.pos)
               IN  IF ~v.ok THEN failed
                   ELSE DecodeMessage(messageType, buf, v.pos, end,
                                      PutField(obj, field, v.value))
          ELSE IF Schema[messageType][field] \in {"bytes", "string"}
          THEN LET v == ReadBytes(buf, tag.pos)
               IN  IF ~v.ok THEN failed
                   ELSE DecodeMessage(messageType, buf, v.pos, end,
                                      PutField(obj, field, v.value))
          ELSE LET n == ReadVarint(buf, tag.pos)
                   sub == DecodeMessage(Schema[messageType][field], buf,
                                        n.pos, n.pos + n.value, <<>>)
               IN  IF ~n.ok \/ ~sub.ok THEN failed
                   ELSE DecodeMessage(messageType, buf, sub.pos, end,
                                      PutField(obj, field, sub.obj))

\* Type.decode(bytes)
DecodeType(messageType, buf) ==
    DecodeMessage(messageType, buf, 1, Len(buf) + 1, <<>>)

\* writer.uint32 / writer.int64 of a value that is not negative.
RECURSIVE WriteVarint(_)
WriteVarint(n) ==
    IF n < 128 THEN <<n>> ELSE <<128 + (n % 128)>> \o WriteVarint(n \div 128)

\* Type.encode(message).finish(): every property set on the object is
\* written, in the order of the field numbers; a nested message is written
\* with its length in front.
RECURSIVE EncodeMessage(_, _)
EncodeMessage(messageType, obj) ==
    LET RECURSIVE Fields(_)
        Fields(f) ==
            IF f > Cardinality(DOMAIN Schema[messageType]) THEN <<>>
            ELSE (IF ~HasField(obj, f) THEN <<>>
                  ELSE LET v == FieldValue(obj, f)
                           kind == Schema[messageType][f]
                       IN  IF kind = "int64"
                           THEN WriteVarint(8 * f) \o WriteVarint(v)
                           ELSE IF kind \in {"bytes", "string"}
                           THEN WriteVarint(8 * f + 2)
                                \o WriteVarint(Len(v)) \o v
                           ELSE LET sub == EncodeMessage(kind, v)
                                IN  WriteVarint(8 * f + 2)
                                    \o WriteVarint(Len(sub)) \o sub)
                 \o Fields(f + 1)
    IN  Fields(1)

\* c2sMessage.msg: the member of the oneof that was set last, undefined when
\* none is set.
OneofCase(obj) ==
    IF obj = <<>> THEN "undefined"
    ELSE <<"join", "part", "data">>[obj[Len(obj)].f]

\* The messages of party.proto as a client or the server builds them: a
\* field at its default is not set.
Field(f, v, default) == IF v = default THEN <<>> ELSE <<[f |-> f, v |-> v]>>

CodecIds == {0, 7, 300}

CodecPayloads == {<<>>, <<7>>, <<8, 0>>}

CodecTypes == {<<>>, TypeX}

IdPair(p, m) == Field(1, p, 0) \o Field(2, m, 0)

DataFields(f, d, t) == Field(f, d, <<>>) \o Field(f + 1, t, <<>>)

Member(f, message) == <<[f |-> f, v |-> message]>>

\* The encodings of the C2S and S2C messages over these values, computed
\* once.
Encodings ==
    [C2S |-> {EncodeMessage("C2S", Member(1, IdPair(p, m))) :
                 p, m \in CodecIds}
             \cup {EncodeMessage("C2S", Member(2, <<>>))}
             \cup {EncodeMessage("C2S", Member(3, DataFields(1, d, t))) :
                      d \in CodecPayloads, t \in CodecTypes},
     S2C |-> {EncodeMessage("S2C", Member(f, IdPair(p, m))) :
                 f \in {1, 2}, p, m \in CodecIds}
             \cup {EncodeMessage("S2C",
                       Member(3, IdPair(p, m) \o DataFields(3, d, t))) :
                      p, m \in CodecIds,
                      d \in CodecPayloads, t \in CodecTypes}]

\* Other bytes a peer can send: every buffer of up to two of these bytes.
WireBytes == {0, 1, 8, 10, 16, 18, 24, 26, 255}

ShortBuffers ==
    {<<>>} \cup {<<a>> : a \in WireBytes}
           \cup {<<a, b>> : a, b \in WireBytes}

\* Party.C2S.decode in the message handler, or the decoding of an S2C by the
\* peer, followed by the encoding of what was decoded.  ev.type is the
\* variant the oneof selects, ev.data the bytes encoded again.
DecodeBytes(messageType, b) ==
    /\ Party
    /\ LET d == DecodeType(messageType, b)
       IN  /\ ev' = [Event("decode", 0) EXCEPT
                        !.sent = messageType, !.bytes = b,
                        !.type = IF d.ok THEN <<OneofCase(d.obj)>> ELSE <<>>,
                        !.data = IF d.ok THEN EncodeMessage(messageType, d.obj)
                                 ELSE <<>>]
           /\ err' = IF d.ok THEN "none" ELSE "DecodeError"
    /\ out' = <<>>
    /\ UNCHANGED <<nJoins, variant, Party, conns, registry>>
    /\ Observe

NextCodec ==
    \/ LoadProto
    \/ \E messageType \in {"C2S", "S2C"} :
          \E b \in Encodings[messageType] \cup ShortBuffers :
              DecodeBytes(messageType, b)

SpecCodec == Init /\ [][NextCodec]_vars

-----------------------------------------------------------------------------
(* The four-message variant (part_000 lines 518-1009).                     *)

\* broadcastToParty of the four-message variant: the sender of a Data
\* message is passed over, every other member is treated as before.
BroadcastToPartyFour(sess, pts, mem, cn, partyIdStr, senderMemberId, messageTypeName, message) ==
    IF partyIdStr \notin DOMAIN pts THEN <<>>
    ELSE
      LET party == pts[partyIdStr]
          deliver(memberId) ==
              IF memberId = senderMemberId /\ messageTypeName = "Data" THEN <<>>
              ELSE IF /\ HasMember(mem, memberId)
                      /\ Writable(sess, cn, GetMember(mem, memberId).sessionId)
              THEN <<Send(sess[GetMember(mem, memberId).sessionId], memberId,
                          "broadcast", message)>>
              ELSE <<>>
          upto[i \in 0 .. Len(party)] ==
              IF i = 0 THEN <<>> ELSE upto[i - 1] \o deliver(party[i])
      IN  upto[Len(party)]

\* null, the senderMemberId of a UserPart broadcast.
Null == <<>>

\* handleJoin: the tables afterwards, the broadcast and the catch-up sends.
HandleJoinFour(sess, pts, mem, cn, sessionId, joinMessage) ==
    LET mem1 == JoinMembers("four", mem, sessionId, joinMessage.partyId,
                            joinMessage.memberId)
        pts1 == JoinParties(pts, joinMessage.partyId, joinMessage.memberId)
    IN  [parties |-> pts1,
         members |-> mem1,
         out |-> BroadcastToPartyFour(sess, pts1, mem1, cn,
                     KeyOf[joinMessage.partyId], KeyOf[joinMessage.memberId],
                     "UserJoin",
                     UserJoinMsg(joinMessage.partyId, joinMessage.memberId))
                 \o CatchUp(sess, pts1, mem1, cn, joinMessage.partyId,
                            joinMessage.memberId)]

RemoveMemberFromPartyFour(sess, pts, mem, cn, memberId, partyId) ==
    LET pts1 == RemoveFromParties(pts, memberId, partyId)
        mem1 == DeleteMember(mem, memberId)
    IN  [parties |-> pts1,
         members |-> mem1,
         out |-> BroadcastToPartyFour(sess, pts1, mem1, cn, partyId, Null,
                     "UserPart", UserPartMsg(PartMemberId("four", mem, memberId)))]

\* handlePart and handleDisconnect up to sessions.delete: the session's
\* first record, if any, is removed from its party.
HandlePartFour(sess, pts, mem, cn, sessionId) ==
    LET i == FindMemberBySession(mem, sessionId)
    IN  IF i = 0 THEN [parties |-> pts, members |-> mem, out |-> <<>>]
        ELSE RemoveMemberFromPartyFour(sess, pts, mem, cn, mem[i].id, mem[i].partyId)

\* handleData: the decoded Data is broadcast as it is, the sender left out.
HandleDataFour(sess, pts, mem, cn, sessionId, dataMessage) ==
    LET i == FindMemberBySession(mem, sessionId)
    IN  [parties |-> pts,
         members |-> mem,
         out |-> IF i = 0 THEN <<>>
                 ELSE BroadcastToPartyFour(sess, pts, mem, cn, mem[i].partyId,
                          mem[i].id, "Data",
                          DataMsg(dataMessage.data, dataMessage.type))]

\* The handler names of the event record.
HandlerOf(messageType) ==
    CASE messageType = "Join" -> "join"
      [] messageType = "Part" -> "part"
      [] messageType = "Data" -> "data"
      [] messageType = "UserSync" -> "usersync"
      [] OTHER -> "undecoded"

InitFour ==
    /\ variant = "four"
    /\ Party = FALSE
    /\ conns = [c \in Conns |-> [state |-> "idle", sid |-> NoSid]]
    /\ sessions = EmptyMap
    /\ parties = EmptyMap
    /\ members = <<>>
    /\ ev = NoEvent
    /\ out = <<>>
    /\ err = "none"
    /\ nJoins = 0
    /\ Unobserved

\* ws.on('message'): trial decoding, then the handler of the type found.
Receive(c, b) ==
    /\ variant = "four"
    /\ conns[c].state = "open"
    /\ LET found == IF Party THEN Decoded[b.bytes]
                    ELSE [messageType |-> "none", decoded |-> DefaultMessage]
           sessionId == conns[c].sid
           r == CASE found.messageType = "Join" ->
                       HandleJoinFour(sessions, parties, members, conns,
                                      sessionId, found.decoded)
                  [] found.messageType = "Part" ->
                       HandlePartFour(sessions, parties, members, conns, sessionId)
                  [] found.messageType = "Data" ->
                       HandleDataFour(sessions, parties, members, conns,
                                      sessionId, found.decoded)
                  [] OTHER ->
                       [parties |-> parties, members |-> members, out |-> <<>>]
       IN  /\ found.messageType = "Join" => nJoins < MaxJoins
           /\ nJoins' = IF found.messageType = "Join" THEN nJoins + 1 ELSE nJoins
           /\ ev' = [Event(IF Party THEN HandlerOf(found.messageType) ELSE "unloaded", c)
                        EXCEPT !.partyId = found.decoded.partyId,
                               !.memberId = found.decoded.memberId,
                               !.data = found.decoded.data,
                               !.type = found.decoded.type,
                               !.sent = b.sent,
                               !.bytes = b.bytes]
           /\ parties' = r.parties
           /\ members' = r.members
           /\ out' = r.out
    /\ err' = "none"
    /\ UNCHANGED <<variant, Party, conns, sessions>>
    /\ Observe

\* ws.on('close'): handleDisconnect.
CloseFour(c) ==
    /\ variant = "four"
    /\ conns[c].state \in {"open", "closing"}
    /\ ev' = Event("close", c)
    /\ err' = "none"
    /\ conns' = [conns EXCEPT ![c] = [state |-> "closed", sid |-> NoSid]]
    /\ LET r == HandlePartFour(sessions, parties, members, conns', conns[c].sid)
       IN  /\ parties' = r.parties
           /\ members' = r.members
           /\ out' = r.out
    /\ sessions' = MapDelete(sessions, conns[c].sid)
    /\ UNCHANGED <<nJoins, variant, Party>>
    /\ Observe

NextFour ==
    \/ LoadProto
    \/ \E c \in Conns, sidParam \in {NoSid} \cup Conns : Connect(c, sidParam)
    \/ \E c \in Conns, b \in Buffers : Receive(c, b)
    \/ \E c \in Conns : ReadyStateClosing(c)
    \/ \E c \in Conns : CloseFour(c)

SpecFour == InitFour /\ [][NextFour]_vars

-----------------------------------------------------------------------------
(* Properties.                                                             *)

Elems(seq) == {seq[i] : i \in 1 .. Len(seq)}

\* The event processed last was a message of this kind, handled with the
\* schema loaded.
Processed(kind) == ev.kind = kind /\ Party

\* C1: party existence.  A party identifier is a key of the party table if
\* and only if its member set (empty for an absent party) is non-empty: no
\* key of the table maps to an empty Set, after any event.
PartyExistence ==
    \A p \in Keys :
        p \in DOMAIN parties <=>
            (IF p \in DOMAIN parties THEN parties[p] ELSE <<>>) # <<>>

\* A member joined, then parted or disconnected as the last member of its
\* party, and the party is gone from the table.
PartyExistenceWitness ==
    /\ ev.kind \in {"part", "close"}
    /\ nJoins = 1
    /\ members = <<>>
    /\ DOMAIN parties = {}

\* C2: no member identifier is in the member sets of two different parties.
OnePartyPerMember ==
    \A p, q \in DOMAIN parties :
        p # q => Elems(parties[p]) \cap Elems(parties[q]) = {}

\* C3: at most one member record carries a given sessionId.
OneMemberPerSession ==
    \A i, j \in 1 .. Len(members) :
        members[i].sessionId = members[j].sessionId => i = j

\* C4: session-to-member resolution returns the member of the most recent
\* Join on the session, and nothing once the session has parted.  Stated for
\* the event just processed: right after Join(m) on a session the scan yields
\* m, and right after Part on a session the scan yields no member.
ResolutionTracksLastJoin ==
    /\ Processed("join") =>
          LET i == FindMemberBySession(members, conns[ev.conn].sid)
          IN  i # 0 /\ members[i].id = KeyOf[ev.memberId]
    /\ Processed("part") =>
          FindMemberBySession(members, conns[ev.conn].sid) = 0

\* C5: the sessionId of every member record is a key of the session table.
MemberSessionConnected ==
    \A i \in 1 .. Len(members) : members[i].sessionId \in DOMAIN sessions

\* The sends of the last event that are addressed to member k and carry
\* message m.
SendsTo(k, m) == {i \in 1 .. Len(out) : out[i].member = k /\ out[i].msg = m}

\* The connection the registry resolves member k to, when it is open.
HasOpenConnection(k) ==
    /\ HasMember(members, k)
    /\ Writable(sessions, conns, GetMember(members, k).sessionId)

ConnectionOf(k) == sessions[GetMember(members, k).sessionId]

\* C6: when Join(p, m) is processed, every member of p after the add whose
\* connection (the one its session is registered with) is open, the new
\* member included, is sent exactly one UserJoin{p, m}, on that connection.
JoinAnnounced ==
    Processed("join") =>
        \A k \in Elems(parties[KeyOf[ev.partyId]]) :
            HasOpenConnection(k) =>
                /\ Cardinality(SendsTo(k, UserJoinMsg(ev.partyId, ev.memberId))) = 1
                /\ \A i \in SendsTo(k, UserJoinMsg(ev.partyId, ev.memberId)) :
                      out[i].to = ConnectionOf(k)

\* A Join was announced to two members on two different connections, one of
\* them the connection the Join came from.
JoinAnnouncedWitness ==
    /\ Processed("join")
    /\ \E i, j \in 1 .. Len(out) :
          /\ out[i].via = "broadcast" /\ out[j].via = "broadcast"
          /\ out[i].to = ev.conn /\ out[j].to # ev.conn
          /\ out[i].member = KeyOf[ev.memberId]
          /\ out[i].msg = UserJoinMsg(ev.partyId, ev.memberId)
          /\ out[j].msg = UserJoinMsg(ev.partyId, ev.memberId)

\* The catch-up messages of the last event: the sends sendMessageToMember made.
CatchUpSends == {i \in 1 .. Len(out) : out[i].via = "unicast"}

\* C7: (Long.js variant) when member B joins party P, B is sent exactly one
\* catch-up UserJoin{P, A} for each other member A of P and none describing
\* B; joining a party with no other member brings no catch-up message.
CatchUpComplete ==
    (variant = "long" /\ Processed("join")) =>
        LET B == KeyOf[ev.memberId]
            P == KeyOf[ev.partyId]
        IN  /\ \A A \in Elems(parties[P]) \ {B} :
                  HasMember(members, A) =>
                      Cardinality({i \in CatchUpSends :
                          /\ out[i].member = B
                          /\ out[i].msg = UserJoinMsg(ev.partyId, LongOf[A])}) = 1
            /\ \A i \in CatchUpSends : out[i].msg.memberId # ev.memberId
            /\ Elems(parties[P]) = {B} => CatchUpSends = {}

\* C8: (server.js) when a member joins a party that holds other members, the
\* newcomer is sent a UserJoin for every other member and handleJoin runs to
\* completion.
ServerCatchUp ==
    (variant = "server" /\ Processed("join")) =>
        /\ err = "none"
        /\ \A A \in Elems(parties[KeyOf[ev.partyId]]) \ {KeyOf[ev.memberId]} :
              \E i \in 1 .. Len(out) :
                  /\ out[i].member = KeyOf[ev.memberId]
                  /\ out[i].msg = UserJoinMsg(ev.partyId, LongOf[A])

\* C9 as claimed: the catch-up messages are sent to the newcomer before the
\* UserJoin describing the newcomer is broadcast.
CatchUpBeforeAnnounce ==
    Processed("join") =>
        \A i, j \in 1 .. Len(out) :
            (out[i].via = "unicast" /\ out[j].via = "broadcast") => i < j

\* C9: the UserJoin describing the newcomer is broadcast to the whole party
\* first; every catch-up message follows it.
AnnounceBeforeCatchUp ==
    Processed("join") =>
        \A i, j \in 1 .. Len(out) :
            (out[i].via = "broadcast" /\ out[j].via = "unicast") => i < j

\* A newcomer was sent the broadcast describing itself and a catch-up message
\* describing an earlier member.
AnnounceBeforeCatchUpWitness ==
    /\ Processed("join")
    /\ \E i, j \in 1 .. Len(out) :
          /\ out[i].via = "broadcast" /\ out[i].to = ev.conn
          /\ out[i].msg = UserJoinMsg(ev.partyId, ev.memberId)
          /\ out[j].via = "unicast" /\ out[j].to = ev.conn
          /\ out[j].msg.kind = "join" /\ out[j].msg.memberId # ev.memberId

\* C10: when a member A of party P whose members all have open connections
\* sends Data{type X, data D}, every member of P is sent exactly one
\* PartyData{P, A, D, X} and nothing else is sent to anyone.
DataFanOut ==
    Processed("data") =>
        LET a == FindMemberBySession(members, conns[ev.conn].sid)
        IN  (/\ a # 0
             /\ members[a].partyId \in DOMAIN parties
             /\ \A k \in Elems(parties[members[a].partyId]) : HasOpenConnection(k))
            =>
            LET P == members[a].partyId
                m == PartyDataMsg(LongOf[P], LongOf[members[a].id], ev.data, ev.type)
            IN  /\ \A k \in Elems(parties[P]) : Cardinality(SendsTo(k, m)) = 1
                /\ Len(out) = Len(parties[P])

\* C11: (four-message variant) when a session with a member record sends a
\* Data message, no copy of it is sent to that session, and every other
\* member of the sender's party whose connection is open is sent exactly one
\* copy.
DataExcludesSender ==
    [][(variant = "four" /\ Party /\ ev'.sent = "Data") =>
          LET sessionId == conns[ev'.conn].sid
              a == FindMemberBySession(members, sessionId)
              sentData == Decode("Data", ev'.bytes).message
              copy == DataMsg(sentData.data, sentData.type)
          IN  a # 0 =>
                /\ \A k \in 1 .. Len(out') :
                      out'[k].msg = copy =>
                          /\ out'[k].to # ev'.conn
                          /\ sessionId \in DOMAIN sessions =>
                                out'[k].to # sessions[sessionId]
                /\ \A m \in Elems(parties[members[a].partyId]) \ {members[a].id} :
                      (/\ HasMember(members, m)
                       /\ Writable(sessions, conns, GetMember(members, m).sessionId))
                      => Cardinality({k \in 1 .. Len(out') :
                             out'[k].member = m /\ out'[k].msg = copy}) = 1
      ]_vars

\* C12: (tagged-union variants) every PartyData relayed for an inbound
\* Data{data, type} carries the type string and the data bytes that were
\* received, whatever they contain.
OpaquePassThrough ==
    Processed("data") =>
        \A i \in 1 .. Len(out) :
            out[i].msg.kind = "data" =>
                /\ out[i].msg.type = ev.type
                /\ out[i].msg.data = ev.data

\* A session has no member record.
Unjoined(mem, sessionId) ==
    \A i \in 1 .. Len(mem) : mem[i].sessionId # sessionId

\* C13: a Data message from a session that has no member record is
\* discarded: nothing is sent, the session, member and party tables stay as
\* they are and the sending connection stays open and registered as before.
UnknownSenderDiscarded ==
    [][(ev'.kind = "data" /\ Unjoined(members, conns[ev'.conn].sid)) =>
          /\ out' = <<>>
          /\ UNCHANGED <<sessions, parties, members>>
          /\ conns' = conns
          /\ conns'[ev'.conn].state = "open"
      ]_vars

\* A connection that never joined sent Data while another session's member
\* was in a party; nothing was sent.
UnknownSenderDiscardedWitness ==
    /\ Processed("data")
    /\ members # <<>>
    /\ Unjoined(members, conns[ev.conn].sid)
    /\ conns[ev.conn].sid \in DOMAIN sessions
    /\ \E i \in 1 .. Len(members) :
          Writable(sessions, conns, members[i].sessionId)
    /\ out = <<>>

\* The record a Part or a disconnect of connection c acts on: the first
\* record of c's session, 0 when it has none.
Leaving(c) == FindMemberBySession(members, conns[c].sid)

\* The step is a Part that was handled, or a disconnect.
Leaves == (ev'.kind = "part" /\ Party) \/ ev'.kind = "close"

\* C14: when the session of member m of party P sends Part or disconnects,
\* m's record is deleted and m leaves P's set, every remaining member of P
\* with an open connection is sent exactly one UserPart carrying m, and the
\* parting session itself is sent no UserPart.
PartAnnounced ==
    [][(Leaves /\ Leaving(ev'.conn) # 0) =>
          LET m == members[Leaving(ev'.conn)].id
              P == members[Leaving(ev'.conn)].partyId
              remaining == IF P \in DOMAIN parties' THEN Elems(parties'[P]) ELSE {}
          IN  /\ ~HasMember(members', m)
              /\ m \notin remaining
              /\ \A k \in remaining :
                    (/\ HasMember(members', k)
                     /\ Writable(sessions, conns', GetMember(members', k).sessionId))
                    => Cardinality({i \in 1 .. Len(out') :
                           /\ out'[i].member = k
                           /\ out'[i].msg = UserPartMsg(LongOf[m])}) = 1
              /\ \A i \in 1 .. Len(out') :
                    out'[i].msg.kind = "part" => out'[i].to # ev'.conn
      ]_vars

\* C15: when the only member of a party parts or disconnects, the party is
\* removed from the party table and the event sends no message at all.
LastMemberLeavesSilently ==
    [][(Leaves /\ Leaving(ev'.conn) # 0) =>
          LET m == members[Leaving(ev'.conn)].id
              P == members[Leaving(ev'.conn)].partyId
          IN  (P \in DOMAIN parties /\ parties[P] = <<m>>) =>
                  /\ P \notin DOMAIN parties'
                  /\ out' = <<>>
      ]_vars

\* Two members were in two parties; one of them left, its party is gone and
\* the other member, whose connection is open, was sent nothing.
LastMemberLeavesSilentlyWitness ==
    /\ ev.kind \in {"part", "close"}
    /\ nJoins = 2
    /\ Len(members) = 1
    /\ DOMAIN parties = {members[1].partyId}
    /\ Writable(sessions, conns, members[1].sessionId)
    /\ sessions[members[1].sessionId] # ev.conn
    /\ out = <<>>

\* C16: Part or Disconnect on a session that has no member record changes
\* neither the member nor the party table and sends nothing; Disconnect
\* removes that session's key from the session table and nothing else.
UnjoinedLeaveIsNoOp ==
    [][(Leaves /\ Unjoined(members, conns[ev'.conn].sid)) =>
          /\ UNCHANGED <<parties, members>>
          /\ out' = <<>>
          /\ sessions' = IF ev'.kind = "close"
                         THEN MapDelete(sessions, conns[ev'.conn].sid)
                         ELSE sessions
      ]_vars

\* A connection that never joined disconnected while another session's
\* member stayed in its party.
UnjoinedLeaveIsNoOpWitness ==
    /\ ev.kind = "close"
    /\ nJoins = 1
    /\ Len(members) = 1
    /\ Writable(sessions, conns, members[1].sessionId)
    /\ sessions[members[1].sessionId] # ev.conn
    /\ Cardinality(DOMAIN sessions) = 1
    /\ out = <<>>

\* C17: a Join(p, m) processed on session s right after the same Join on s
\* leaves the session, member and party tables as the first Join left them.
JoinIdempotent ==
    [][(/\ Processed("join")
        /\ ev'.kind = "join"
        /\ ev'.conn = ev.conn
        /\ ev'.partyId = ev.partyId
        /\ ev'.memberId = ev.memberId) =>
          UNCHANGED <<sessions, parties, members>>
      ]_vars

\* The only connection sent two Joins, which left one record and one party
\* with one member: the second Join repeated the first.
JoinIdempotentWitness ==
    /\ Processed("join")
    /\ nJoins = 2
    /\ \A c \in Conns : c # ev.conn => conns[c].state = "idle"
    /\ Len(members) = 1
    /\ members[1].id = KeyOf[ev.memberId]
    /\ DOMAIN parties = {KeyOf[ev.partyId]}
    /\ parties[KeyOf[ev.partyId]] = <<KeyOf[ev.memberId]>>

\* The events that are inbound messages.
MessageKinds == {"join", "part", "data", "garbage", "empty"}

\* C18: no inbound message (undecodable bytes, a union with no variant set,
\* Data or Part from a session with no member, a message whose handler
\* raises) makes the server close a connection or remove a session; what a
\* handler raises is caught and logged by the message handler, which err
\* records.
ProtocolErrorsNotFatal ==
    [][ev'.kind \in MessageKinds =>
          /\ conns' = conns
          /\ sessions' = sessions
          /\ err' \in {"none", "DecodeError", "ReferenceError"}
      ]_vars

\* Undecodable bytes were received on a connection that is still open and
\* registered afterwards.
ProtocolErrorsNotFatalWitness ==
    /\ ev.kind = "garbage"
    /\ err = "DecodeError"
    /\ conns[ev.conn].state = "open"
    /\ conns[ev.conn].sid \in DOMAIN sessions
    /\ sessions[conns[ev.conn].sid] = ev.conn

\* C19: (tagged-union variants) a buffer that fails to decode as C2S, or
\* that decodes with none of join, part and data set, changes none of the
\* session, member and party tables and causes no outbound message.
MalformedDropped ==
    [][ev'.kind \in {"garbage", "empty"} =>
          /\ UNCHANGED <<sessions, parties, members>>
          /\ out' = <<>>
      ]_vars

\* A C2S with no variant set arrived from a session whose member is in a
\* party; nothing was sent and the member is still there.
MalformedDroppedWitness ==
    /\ ev.kind = "empty"
    /\ Party
    /\ ~Unjoined(members, conns[ev.conn].sid)
    /\ Writable(sessions, conns, conns[ev.conn].sid)
    /\ out = <<>>

\* The party the step broadcasts to: the party joined, or the party of the
\* record the sender's session resolves to; <<>> when the step broadcasts
\* nothing.
BroadcastTarget ==
    IF ev'.kind = "join" /\ Party THEN KeyOf[ev'.partyId]
    ELSE IF /\ (ev'.kind = "data" /\ Party) \/ Leaves
            /\ Leaving(ev'.conn) # 0
    THEN members[Leaving(ev'.conn)].partyId
    ELSE <<>>

\* C20: in any broadcast to a party, a member whose connection is missing or
\* not OPEN is sent nothing and no error is raised for it, and every other
\* member of the party whose connection is OPEN is sent the message exactly
\* once, wherever the unwritable member stands in the member set.
BroadcastSkipsOnlyUnwritable ==
    [][(BroadcastTarget \in DOMAIN parties') =>
          /\ \A k \in Elems(parties'[BroadcastTarget]) :
                LET sends == {i \in 1 .. Len(out') :
                                 out'[i].via = "broadcast" /\ out'[i].member = k}
                    open == /\ HasMember(members', k)
                            /\ Writable(sessions, conns',
                                        GetMember(members', k).sessionId)
                IN  Cardinality(sends) = (IF open THEN 1 ELSE 0)
          /\ (ev'.kind # "join" => err' = "none")
      ]_vars

\* A broadcast passed over the first member of the Set, whose connection
\* was not OPEN, and reached a later member.
BroadcastSkipsOnlyUnwritableWitness ==
    /\ Processed("join") \/ Processed("data")
    /\ \E P \in DOMAIN parties :
          /\ Len(parties[P]) >= 2
          /\ HasMember(members, parties[P][1])
          /\ GetMember(members, parties[P][1]).sessionId \in DOMAIN sessions
          /\ ~Writable(sessions, conns, GetMember(members, parties[P][1]).sessionId)
          /\ out # <<>>
          /\ \A i \in 1 .. Len(out) :
                /\ out[i].via = "broadcast"
                /\ out[i].member \in Elems(parties[P]) \ {parties[P][1]}

\* C23: a connection opened without a sessionId parameter is accepted and
\* registered in the session table under an identifier the server generated.
SessionIdFallback ==
    (ev.kind = "connect" /\ ev.sidParam = NoSid) =>
        /\ conns[ev.conn].state = "open"
        /\ conns[ev.conn].sid \notin {NoSid} \cup Conns
        /\ conns[ev.conn].sid \in DOMAIN sessions
        /\ sessions[conns[ev.conn].sid] = ev.conn

\* C24: referential integrity of member records.  For every member record
\* (m -> s, p) the party p is a key of the party table and its Set holds m.
MemberInItsParty ==
    \A i \in 1 .. Len(members) :
        /\ members[i].partyId \in DOMAIN parties
        /\ members[i].id \in Elems(parties[members[i].partyId])

\* A member that joined a second party without a Part: its identifier is in
\* both Sets and its record names the party joined last.
MemberInItsPartyWitness ==
    /\ Processed("join")
    /\ \E p, q \in DOMAIN parties :
          /\ p # q
          /\ KeyOf[ev.memberId] \in Elems(parties[p]) \cap Elems(parties[q])
    /\ HasMember(members, KeyOf[ev.memberId])
    /\ GetMember(members, KeyOf[ev.memberId]).partyId = KeyOf[ev.partyId]

\* C25: (tagged-union variants) the identifiers carried by every outbound
\* UserJoin, UserPart and PartyData are exactly the int64 values of the Join
\* that created the member, beyond 2^53 too, and two distinct identifiers
\* never share a registry key.  (A UserPart is sent without partyId; only
\* its memberId is compared.)
ExactIdentifiers ==
    /\ \A v, w \in DOMAIN KeyOf : KeyOf[v] = KeyOf[w] => v = w
    /\ Processed("join") =>
          \A i \in 1 .. Len(out) :
              /\ out[i].msg.partyId = ev.partyId
              /\ out[i].msg.memberId \in
                    {LongOf[k] : k \in Elems(parties[KeyOf[ev.partyId]])}
    /\ Processed("data") =>
          \A i \in 1 .. Len(out) :
              LET a == FindMemberBySession(members, conns[ev.conn].sid)
              IN  /\ out[i].msg.partyId = LongOf[members[a].partyId]
                  /\ out[i].msg.memberId = LongOf[members[a].id]
    /\ (Processed("part") \/ ev.kind = "close") =>
          \A i \in 1 .. Len(out) :
              /\ out[i].msg.memberId \in {LongOf[k] : k \in Keys}
              /\ ~HasMember(members, KeyOf[out[i].msg.memberId])

\* C28: when the session table is empty and no connection is open or
\* closing, the member table and the party table are empty too.
NoLeakedState ==
    (/\ DOMAIN sessions = {}
     /\ \A c \in Conns : conns[c].state \in {"idle", "closed"})
    => (members = <<>> /\ DOMAIN parties = {})

\* C27: party isolation.  A message broadcast for party P is sent only to
\* connections whose session has, when the message is sent, a member record
\* with partyId P; also after a member joined P and then Q without a Part.
PartyIsolation ==
    [][(BroadcastTarget \in DOMAIN parties') =>
         \A i \in 1 .. Len(out') :
             out'[i].via = "broadcast" =>
                 \E j \in 1 .. Len(members') :
                     /\ members'[j].sessionId = conns'[out'[i].to].sid
                     /\ members'[j].partyId = BroadcastTarget]_vars

\* C21: (Long.js variant) on every connection, no PartyData is written to
\* the connection before the UserJoin announcing a Join sent on that same
\* connection has been written to it.
AnnouncedBeforeData ==
    \A c \in Conns :
        \A i \in 1 .. Len(stream[c]) :
            stream[c][i].kind = "data" =>
                \E j \in 1 .. i - 1 : stream[c][j].own

SharedSessionSurvivesClose ==
    [][\A c, d \in Conns :
          (/\ ev'.kind = "close" /\ ev'.conn = c
           /\ d # c
           /\ conns[d].state = "open" /\ conns'[d].state = "open"
           /\ conns[d].sid = conns[c].sid)
          => /\ (/\ conns[d].sid \in DOMAIN sessions
                 /\ sessions[conns[d].sid] = d)
                => (/\ conns[d].sid \in DOMAIN sessions'
                    /\ sessions'[conns[d].sid] = d)
             /\ \A j \in joined[d] :
                   HasMember(members, j.memberId)
                       => HasMember(members', j.memberId)]_vars

\* C30: membership is stable against other sessions.  A connection that has
\* joined party P, has not sent Part, is still open and is the one its
\* session resolves to, is sent every later broadcast to P, and a Data it
\* sends is relayed, whatever Joins other sessions send.
MembershipStable ==
    [][\A c \in Conns :
          \A j \in joined[c] \cap joined'[c] :
              (/\ conns[c].state = "open" /\ conns'[c].state = "open"
               /\ conns[c].sid \in DOMAIN sessions
               /\ sessions[conns[c].sid] = c
               /\ \A d \in Conns \ {c} : conns[d].sid # conns[c].sid)
              => /\ (/\ BroadcastTarget = j.partyId
                     /\ BroadcastTarget \in DOMAIN parties')
                    => \E i \in 1 .. Len(out') : out'[i].to = c
                 /\ (ev'.kind = "data" /\ ev'.conn = c)
                    => \E i \in 1 .. Len(out') : out'[i].msg.kind = "data"]_vars

\* Whether a buffer is an encoding of the message type: every known field
\* carries the wire type of its declared type, every length stays inside
\* its message, and unknown fields can be skipped.
RECURSIVE Conforms(_, _, _, _)
Conforms(messageType, buf, pos, end) ==
    IF pos >= end THEN pos = end
    ELSE
      LET tag == ReadVarint(buf, pos)
          field == tag.value \div 8
          wireType == tag.value % 8
      IN  /\ tag.ok
          /\ IF field \notin DOMAIN Schema[messageType]
             THEN LET k == SkipType(buf, tag.pos, wireType)
                  IN  k.ok /\ field # 0 /\ Conforms(messageType, buf, k.pos, end)
             ELSE IF Schema[messageType][field] = "int64"
             THEN LET v == ReadVarint(buf, tag.pos)
                  IN  /\ wireType = 0 /\ v.ok
                      /\ Conforms(messageType, buf, v.pos, end)
             ELSE IF Schema[messageType][field] \in {"bytes", "string"}
             THEN LET v == ReadBytes(buf, tag.pos)
                  IN  /\ wireType = 2 /\ v.ok
                      /\ Conforms(messageType, buf, v.pos, end)
             ELSE LET n == ReadVarint(buf, tag.pos)
                  IN  /\ wireType = 2 /\ n.ok /\ n.pos + n.value <= end
                      /\ Conforms(Schema[messageType][field], buf,
                                  n.pos, n.pos + n.value)
                      /\ Conforms(messageType, buf, n.pos + n.value, end)

\* C26: decoding the encoding of a message and encoding the result gives the
\* same bytes, for every C2S and S2C message; and bytes that are not an
\* encoding of a C2S are handled as a malformed message: the decoder throws
\* into the handler's catch, or no variant is selected.
CodecRoundTrip ==
    ev.kind = "decode" =>
        /\ ev.bytes \in Encodings[ev.sent] =>
              (err = "none" /\ ev.data = ev.bytes)
        /\ (/\ ev.sent = "C2S"
            /\ ~Conforms("C2S", ev.bytes, 1, Len(ev.bytes) + 1))
           => (err = "DecodeError" \/ ev.type = <<"undefined">>)

\* C31: (server.js) the relay originates no payloads.  Every PartyData sent
\* to a client was triggered by a Data message received from a joined member
\* and carries that member's identifier and that message's type and bytes;
\* a connect or a join sends no PartyData.
RelayOriginatesNothing ==
    variant = "server" =>
        \A i \in 1 .. Len(out) :
            out[i].msg.kind = "data" =>
                LET a == FindMemberBySession(members, conns[ev.conn].sid)
                IN  /\ ev.kind = "data"
                    /\ a # 0
                    /\ out[i].msg.memberId = LongOf[members[a].id]
                    /\ out[i].msg.type = ev.type
                    /\ out[i].msg.data = ev.data

\* C32: (four-message variant) every data message relayed to a party member
\* carries the partyId and the memberId of the member that sent it.
RelayNamesSender ==
    (variant = "four" /\ Processed("data")) =>
        \A i \in 1 .. Len(out) :
            LET a == FindMemberBySession(members, conns[ev.conn].sid)
            IN  /\ a # 0
                /\ out[i].msg.partyId = LongOf[members[a].partyId]
                /\ out[i].msg.memberId = LongOf[members[a].id]

\* C33: (four-message variant) an inbound message is handled by the handler
\* of the variant the client sent; a Part sent by a joined session removes
\* that session's member and is never handled as a Join.
DispatchByVariant ==
    [][(/\ variant = "four" /\ Party
        /\ ev'.sent \in {"Join", "Part", "Data", "UserSync"})
       => /\ ev'.kind = HandlerOf(ev'.sent)
          /\ LET a == FindMemberBySession(members, conns[ev'.conn].sid)
             IN  (ev'.sent = "Part" /\ a # 0)
                 => /\ ev'.kind # "join"
                    /\ ~HasMember(members', members[a].id)]_vars

\* C34: a Data event never mutates the registry.  Processing a Data message,
\* from a joined or an unjoined session, leaves the session table, the member
\* table and the party table as they were.
DataLeavesRegistry ==
    [][ev'.kind = "data" =>
          /\ sessions' = sessions
          /\ members' = members
          /\ parties' = parties]_vars

\* A Data of a joined member, relayed while another member of its party
\* cannot be written to.
DataLeavesRegistryWitness ==
    /\ Processed("data")
    /\ out # <<>>
    /\ LET a == FindMemberBySession(members, conns[ev.conn].sid)
       IN  /\ a # 0
           /\ \E j \in 1 .. Len(members) :
                 /\ members[j].partyId = members[a].partyId
                 /\ ~Writable(sessions, conns, members[j].sessionId)

\* C35: schema-load gating.  A message that arrives on a registered
\* connection before the schema load has completed is dropped: no table
\* changes and nothing is sent.  Once the load has completed, a Join on the
\* same connection is processed: its member is recorded in its party.
LoadGatesMessages ==
    [][ev'.kind \in {"join", "part", "data", "garbage", "empty"} =>
          /\ ~Party =>
                /\ UNCHANGED registry
                /\ out' = <<>>
                /\ err' = "none"
          /\ (Party /\ ev'.kind = "join") =>
                /\ HasMember(members', KeyOf[ev'.memberId])
                /\ KeyOf[ev'.partyId] \in DOMAIN parties'
                /\ KeyOf[ev'.memberId] \in Elems(parties'[KeyOf[ev'.partyId]])]_vars

\* A Join that arrived on an open connection before the load completed.
LoadGatesMessagesWitness ==
    /\ ev.kind = "join"
    /\ ~Party
    /\ conns[ev.conn].state = "open"
    /\ conns[ev.conn].sid \in DOMAIN sessions
    /\ members = <<>>
    /\ out = <<>>

====
